---- MODULE Spec2Model ----
(***************************************************************************)
(* Extractive summarizer of app.py: summarize_text_spacy(text, nlp, ratio, *)
(* min_sentences, max_sentences).                                          *)
(*                                                                         *)
(* The text is the sequence of the surface strings of its tokens, and the  *)
(* analysis nlp(text) is the token attributes (is_space, is_punct,         *)
(* is_stop, lemma_) plus the sentence spans doc.sents, which partition the *)
(* tokens.  A string (a sentence's text, the summary) is a sequence of     *)
(* symbols: token surfaces and the " " that join() inserts.                *)
(*                                                                         *)
(* Python floats are represented by exact fractions <<num, den>> in lowest *)
(* terms; the ratio is the fraction ratio[1] / ratio[2].                   *)
(***************************************************************************)
EXTENDS Integers, Sequences, FiniteSets, TLC

VARIABLES pc, doc, sentences, ratio, min_sentences, max_sentences,
          word_freq, sent_scores, K, top, chosen, result, outcome, ret

vars == <<pc, doc, sentences, ratio, min_sentences, max_sentences,
          word_freq, sent_scores, K, top, chosen, result, outcome, ret>>

\* ------------------------------------------------------------------ bounds
\* most tokens in a document
MaxTokens == 3
\* min_sentences and max_sentences range over -1 .. MaxCfg
MaxCfg == 2
\* ratio ranges over 0/RatioDen .. (RatioDen + 1)/RatioDen
RatioDen == 2

\* ------------------------------------------------------- tokens (nlp, spaCy)
\* Surface strings of the tokens a document is made of: a whitespace token,
\* a punctuation token, a symbol that string.punctuation holds and is_punct
\* does not flag, a stop word and two content words.
Vocab == {"  ", ".", "$", "the", "Cats", "Dog"}

is_space(t) == t = "  "

is_punct(t) == t = "."

is_stop(t) == t = "the"

lemma_(t) == IF t = "Cats" THEN "cat" ELSE t

lower(s) == IF s = "Dog" THEN "dog" ELSE s

STOP_WORDS == {"the"}

punct_set == {".", "$"}

\* ---------------------------------------------------------------- numbers
Min2(a, b) == IF a <= b THEN a ELSE b

Max2(a, b) == IF a >= b THEN a ELSE b

RECURSIVE Gcd(_, _)
Gcd(a, b) == IF b = 0 THEN a ELSE Gcd(b, a % b)

\* the float num/den (den > 0, num >= 0), in lowest terms
Frac(num, den) == LET g == Gcd(num, den) IN <<num \div g, den \div g>>

FracAdd(a, b) == Frac(a[1] * b[2] + b[1] * a[2], a[2] * b[2])

FracLess(a, b) == a[1] * b[2] < b[1] * a[2]

\* int(x) of the float num/den: truncation toward zero
IntTrunc(num, den) ==
    IF num >= 0 THEN num \div den ELSE 0 - ((0 - num) \div den)

\* ---------------------------------------------------------------- strings
IsWhitespace(sym) == sym = " " \/ is_space(sym)

RECURSIVE LStrip(_)
LStrip(s) ==
    IF s # <<>> /\ IsWhitespace(Head(s)) THEN LStrip(Tail(s)) ELSE s

RECURSIVE RStrip(_)
RStrip(s) ==
    IF s # <<>> /\ IsWhitespace(s[Len(s)])
    THEN RStrip(SubSeq(s, 1, Len(s) - 1)) ELSE s

\* str.strip()
Strip(s) == RStrip(LStrip(s))

\* " ".join(parts)
RECURSIVE Join(_)
Join(parts) ==
    IF parts = <<>> THEN <<>>
    ELSE IF Len(parts) = 1 THEN parts[1]
    ELSE parts[1] \o <<" ">> \o Join(Tail(parts))

\* seq[:n], Python slice semantics (a negative n counts from the end)
SliceTo(seq, n) ==
    IF n >= 0 THEN SubSeq(seq, 1, Min2(n, Len(seq)))
    ELSE SubSeq(seq, 1, Max2(0, Len(seq) + n))

\* ------------------------------------------------------- spans (doc.sents)
\* A span covers tokens start .. end-1 of the document, counted from 0.
SpanTokens(d, s) == SubSeq(d, s.start + 1, s.end)

\* Span.text
SpanText(d, s) == SpanTokens(d, s)

\* the sentence spans of a document of n tokens cut before the tokens in cuts
Segment(n, cuts) ==
    LET starts == IF n = 0 THEN {} ELSE {0} \cup cuts
        EndOf(a) == IF \E b \in starts : b > a
                    THEN CHOOSE b \in starts :
                             b > a /\ \A c \in starts : c > a => b <= c
                    ELSE n
        Nth(k) == CHOOSE a \in starts :
                      Cardinality({b \in starts : b < a}) = k - 1
    IN  [k \in 1..Cardinality(starts) |->
            [start |-> Nth(k), end |-> EndOf(Nth(k))]]

\* ------------------------------------------------------------ the summarizer
\* faulty variant of IsBlank: only the empty text is caught
IsEmptyText(text) == text = <<>>

\* `not text or not text.strip()`
IsBlank(text) == text = <<>> \/ Strip(text) = <<>>

\* the filters of the frequency loop: TRUE when the token is not counted
Skipped(t) ==
    \/ is_space(t) \/ is_punct(t)
    \/ is_stop(t)
    \/ t \in punct_set
    \/ lower(lemma_(t)) = ""
    \/ lower(lemma_(t)) \in STOP_WORDS

\* the frequency loop over the tokens of the document: lemma -> count
RECURSIVE CountWords(_, _)
CountWords(toks, wf) ==
    IF toks = <<>> THEN wf
    ELSE LET t == Head(toks)
             key == lower(lemma_(t))
         IN  CountWords(Tail(toks),
                 IF Skipped(t) THEN wf
                 ELSE IF key \in DOMAIN wf THEN [wf EXCEPT ![key] = @ + 1]
                 ELSE wf @@ (key :> 1))

\* faulty variant of IsEmptyDict: the empty weight map is not caught
NeverEmptyDict(d) == FALSE

\* `not word_freq`
IsEmptyDict(d) == DOMAIN d = {}

\* max(word_freq.values()) and the division of every count by it
Normalize(wf) ==
    LET max_f == CHOOSE m \in {wf[w] : w \in DOMAIN wf} :
                     \A w \in DOMAIN wf : wf[w] <= m
    IN  [w \in DOMAIN wf |-> Frac(wf[w], max_f)]

\* faulty variant of ScoreLoop: the filters of the frequency loop are applied,
\* so stop words are left out of the length too
RECURSIVE ScoreLoopSkipStops(_, _, _, _)
ScoreLoopSkipStops(toks, wf, score, length) ==
    IF toks = <<>> THEN [score |-> score, length |-> length]
    ELSE LET t == Head(toks)
             key == lower(lemma_(t))
         IN  IF Skipped(t)
             THEN ScoreLoopSkipStops(Tail(toks), wf, score, length)
             ELSE ScoreLoopSkipStops(Tail(toks), wf,
                      IF key \in DOMAIN wf THEN FracAdd(score, wf[key])
                      ELSE score,
                      length + 1)

\* the inner loop over the tokens of one sentence: the accumulated score and
\* the length
RECURSIVE ScoreLoop(_, _, _, _)
ScoreLoop(toks, wf, score, length) ==
    IF toks = <<>> THEN [score |-> score, length |-> length]
    ELSE LET t == Head(toks)
             key == lower(lemma_(t))
         IN  IF is_space(t) \/ is_punct(t)
             THEN ScoreLoop(Tail(toks), wf, score, length)
             ELSE ScoreLoop(Tail(toks), wf,
                      IF key \in DOMAIN wf THEN FracAdd(score, wf[key])
                      ELSE score,
                      length + 1)

\* the outer loop: sentence index -> score, for the sentences of length > 0
ScoreSentences(d, sents, wf) ==
    LET acc(i) == ScoreLoop(SpanTokens(d, sents[i]), wf, <<0, 1>>, 0)
        scored == {i \in 1..Len(sents) : acc(i).length > 0}
    IN  [i \in scored |->
            Frac(acc(i).score[1], acc(i).score[2] * acc(i).length)]

\* faulty variant of KOf: min_sentences is not applied
KNoMin(n, r, mn, mx) ==
    Min2(Min2(IntTrunc(n * r[1], r[2]), mx), n)

\* faulty variant of KOf: K is not clamped to max_sentences
KNoMaxClamp(n, r, mn, mx) ==
    Min2(Max2(mn, IntTrunc(n * r[1], r[2])), n)

\* faulty variant of KOf: len(sentences) * ratio is rounded up
KRoundUp(n, r, mn, mx) ==
    Min2(Min2(Max2(mn, (n * r[1] + r[2] - 1) \div r[2]), mx), n)

\* K = max(min_sentences, int(len(sentences) * ratio))
\* K = min(K, max_sentences, len(sentences))
KOf(n, r, mn, mx) ==
    Min2(Min2(Max2(mn, IntTrunc(n * r[1], r[2])), mx), n)

\* the keys of a dict keyed by sentence, in insertion order
Keys(scores) ==
    LET dom == DOMAIN scores
    IN  [k \in 1..Cardinality(dom) |->
            CHOOSE i \in dom : Cardinality({j \in dom : j < i}) = k - 1]

\* faulty variant of nlargest: equal keys in the reverse order of the iterable
nlargestTiesLast(n, iterable, key) ==
    LET size == Len(iterable)
        Before(a, b) ==
            \/ FracLess(key[iterable[b]], key[iterable[a]])
            \/ key[iterable[a]] = key[iterable[b]] /\ a > b
        rank(a) == Cardinality({b \in 1..size : Before(b, a)})
        byKey == [r \in 1..size |->
                     iterable[CHOOSE a \in 1..size : rank(a) = r - 1]]
    IN  IF n <= 0 THEN <<>> ELSE SubSeq(byKey, 1, Min2(n, size))

\* faulty variant of nlargest: heapq.nsmallest
nsmallest(n, iterable, key) ==
    LET size == Len(iterable)
        Before(a, b) ==
            \/ FracLess(key[iterable[a]], key[iterable[b]])
            \/ key[iterable[a]] = key[iterable[b]] /\ a < b
        rank(a) == Cardinality({b \in 1..size : Before(b, a)})
        byKey == [r \in 1..size |->
                     iterable[CHOOSE a \in 1..size : rank(a) = r - 1]]
    IN  IF n <= 0 THEN <<>> ELSE SubSeq(byKey, 1, Min2(n, size))

\* heapq.nlargest(n, iterable, key): the first n of the iterable sorted by
\* key, largest first, equal keys in the order of the iterable
nlargest(n, iterable, key) ==
    LET size == Len(iterable)
        Before(a, b) ==
            \/ FracLess(key[iterable[b]], key[iterable[a]])
            \/ key[iterable[a]] = key[iterable[b]] /\ a < b
        rank(a) == Cardinality({b \in 1..size : Before(b, a)})
        byKey == [r \in 1..size |->
                     iterable[CHOOSE a \in 1..size : rank(a) = r - 1]]
    IN  IF n <= 0 THEN <<>> ELSE SubSeq(byKey, 1, Min2(n, size))

\* faulty variant of SortedByStart: the selection is left in score order
Unsorted(sents, picked) == picked

\* sorted(top, key=lambda s: s.start)
SortedByStart(sents, picked) ==
    LET size == Len(picked)
        Before(a, b) ==
            \/ sents[picked[a]].start < sents[picked[b]].start
            \/ sents[picked[a]].start = sents[picked[b]].start /\ a < b
        rank(a) == Cardinality({b \in 1..size : Before(b, a)})
    IN  [r \in 1..size |-> picked[CHOOSE a \in 1..size : rank(a) = r - 1]]

\* " ".join([s.text.strip() for s in picked])
Render(d, sents, picked) ==
    Join([k \in 1..Len(picked) |-> Strip(SpanText(d, sents[picked[k]]))])

NoDict == [w \in {} |-> 0]

\* what one call leaves behind
Outcome(oc, rt, wf, sc, k, tp, ch, res) ==
    [outcome |-> oc, ret |-> rt, word_freq |-> wf, sent_scores |-> sc,
     K |-> k, top |-> tp, chosen |-> ch, result |-> res]

\* the body of summarize_text_spacy
Summarize(d, sents, r, mn, mx) ==
    IF IsBlank(d)
    THEN Outcome("returned", "blank", NoDict, NoDict, 0, <<>>, <<>>, <<>>)
    ELSE IF sents = <<>>
    THEN Outcome("returned", "no_sentences", NoDict, NoDict, 0, <<>>, <<>>,
                 Strip(d))
    ELSE LET counts == CountWords(d, NoDict)
             all == [i \in 1..Len(sents) |-> i]
         IN  IF IsEmptyDict(counts)
             THEN LET first == SliceTo(all, mn)
                  IN  Outcome("returned", "no_content", counts, NoDict, 0,
                              <<>>, first, Render(d, sents, first))
             ELSE IF DOMAIN counts = {}
             THEN \* max() of an empty sequence
                  Outcome("ValueError", "raised", counts, NoDict, 0,
                          <<>>, <<>>, <<>>)
             ELSE LET wf == Normalize(counts)
                      sc == ScoreSentences(d, sents, wf)
                      k == KOf(Len(sents), r, mn, mx)
                      tp == nlargest(k, Keys(sc), sc)
                      ch == SortedByStart(sents, tp)
                  IN  Outcome("returned", "ranked", wf, sc, k, tp, ch,
                              Render(d, sents, ch))

\* ------------------------------------------------------------ state machine
Texts == UNION {[1..n -> Vocab] : n \in 0..MaxTokens}

Ratios == {<<p, RatioDen>> : p \in 0..(RatioDen + 1)}

Counts == (0 - 1)..MaxCfg

\* A call is pending: the text, its analysis by nlp, and the configuration.
Init ==
    /\ pc = "call"
    /\ doc \in Texts
    /\ \E cuts \in SUBSET (1..(Len(doc) - 1)) :
           sentences = Segment(Len(doc), cuts)
    /\ ratio \in Ratios
    /\ min_sentences \in Counts
    /\ max_sentences \in Counts
    /\ word_freq = NoDict
    /\ sent_scores = NoDict
    /\ K = 0
    /\ top = <<>>
    /\ chosen = <<>>
    /\ result = <<>>
    /\ outcome = "pending"
    /\ ret = "none"

summarize_text_spacy ==
    /\ pc = "call"
    /\ \E o \in {Summarize(doc, sentences, ratio, min_sentences,
                           max_sentences)} :
           /\ word_freq' = o.word_freq
           /\ sent_scores' = o.sent_scores
           /\ K' = o.K
           /\ top' = o.top
           /\ chosen' = o.chosen
           /\ result' = o.result
           /\ outcome' = o.outcome
           /\ ret' = o.ret
    /\ pc' = "done"
    /\ UNCHANGED <<doc, sentences, ratio, min_sentences, max_sentences>>

Next == summarize_text_spacy

Spec == Init /\ [][Next]_vars

\* ------------------------------------------------------------------ claims
Done == pc = "done"

Total == Len(sentences)

Emitted == {chosen[k] : k \in DOMAIN chosen}

\* ratio in (0,1], 1 <= min_sentences <= max_sentences
ValidConfig ==
    /\ ratio[1] > 0 /\ ratio[1] <= ratio[2]
    /\ min_sentences >= 1
    /\ min_sentences <= max_sentences

\* the tokens of sentence i that are neither space nor punctuation
ContentPositions(i) ==
    {k \in (sentences[i].start + 1)..sentences[i].end :
        ~is_space(doc[k]) /\ ~is_punct(doc[k])}

\* C1: for a non-blank text of at least min_sentences sentences and a valid
\* configuration, the summary holds at least min_sentences and at most
\* min(max_sentences, total) sentences.
C1_SummaryLengthWithinBounds ==
    (Done /\ ~(\A k \in DOMAIN doc : is_space(doc[k])) /\ ValidConfig
          /\ Total >= min_sentences)
    => /\ Len(chosen) >= min_sentences
       /\ Len(chosen) <= Min2(max_sentences, Total)

\* C2: the emitted sentences are in document order: their start positions
\* never decrease from left to right.
C2_DocumentOrder ==
    Done => \A a, b \in DOMAIN chosen :
                a < b => sentences[chosen[a]].start <= sentences[chosen[b]].start

\* two sentences are emitted and the one with the higher score comes later in
\* the document
C2_Witness ==
    /\ Done /\ ret = "ranked" /\ ValidConfig /\ Len(chosen) >= 2
    /\ top # chosen

\* C3: ties are broken by encounter order: of two sentences with equal scores,
\* the later one is selected only if the earlier one is selected too.
C3_StableTieBreak ==
    (Done /\ ret = "ranked")
    => \A i, j \in DOMAIN sent_scores :
           (i < j /\ sent_scores[i] = sent_scores[j] /\ j \in Emitted)
           => i \in Emitted

\* two sentences tie and only the earlier one fits
C3_Witness ==
    /\ Done /\ ret = "ranked" /\ ValidConfig
    /\ \E i, j \in DOMAIN sent_scores :
           /\ i < j /\ sent_scores[i] = sent_scores[j]
           /\ i \in Emitted /\ j \notin Emitted

\* C4: a document of exactly one sentence is summarized to the trimmed text of
\* that sentence, for every valid configuration.
C4_SingleSentence ==
    (Done /\ Total = 1 /\ ValidConfig)
    => /\ outcome = "returned"
       /\ result = Strip(SpanText(doc, sentences[1]))

\* one sentence with a content word, and a ratio that alone would keep none
C4_Witness ==
    /\ Done /\ Total = 1 /\ ValidConfig /\ ret = "ranked"
    /\ ratio[1] < ratio[2]
    /\ result # <<>>

C6_NoContentFallback ==
    (Done /\ ~(\A k \in DOMAIN doc : is_space(doc[k]))
          /\ (\A k \in DOMAIN doc : Skipped(doc[k]))
          /\ min_sentences >= 0)
    => /\ outcome = "returned"
       /\ chosen = [k \in 1..Min2(min_sentences, Total) |-> k]
       /\ result = Join([k \in 1..Min2(min_sentences, Total) |->
                            Strip(SpanText(doc, sentences[k]))])

\* a text of stop words and punctuation with more sentences than min_sentences
C6_Witness ==
    /\ Done /\ ret = "no_content" /\ ValidConfig
    /\ min_sentences >= 2 /\ Total > min_sentences
    /\ Len(result) >= 3

\* C7: K = min(max(min_sentences, floor(total * ratio)), max_sentences, total),
\* and 1 <= K <= min(max_sentences, total) for a valid configuration.
C7_TargetCount ==
    (Done /\ ret = "ranked")
    => /\ K = Min2(Min2(Max2(min_sentences, (Total * ratio[1]) \div ratio[2]),
                        max_sentences), Total)
       /\ (ValidConfig /\ Total >= 1)
              => (1 <= K /\ K <= Min2(max_sentences, Total))

\* total * ratio is not whole, and K is its floor: neither clamp binds
C7_Witness ==
    /\ Done /\ ret = "ranked" /\ ValidConfig
    /\ (Total * ratio[1]) % ratio[2] # 0
    /\ K = (Total * ratio[1]) \div ratio[2]
    /\ K < max_sentences /\ K < Total

\* C8: a text that is empty or only whitespace is summarized to the empty
\* string, for every configuration, and nothing is counted or scored.
C8_BlankTextEmptySummary ==
    (Done /\ \A k \in DOMAIN doc : is_space(doc[k]))
    => /\ outcome = "returned"
       /\ result = <<>>
       /\ ret = "blank"
       /\ chosen = <<>>

\* a whitespace-only text of two sentences, both asked for
C8_Witness ==
    /\ Done /\ doc # <<>> /\ \A k \in DOMAIN doc : is_space(doc[k])
    /\ Total >= 2 /\ min_sentences >= 2
    /\ result = <<>>

\* C9: in the ranked path no sentence left out of the summary has a strictly
\* higher score than a sentence in it.
C9_TopKByScore ==
    (Done /\ ret = "ranked")
    => \A i \in DOMAIN sent_scores \ Emitted :
           \A j \in Emitted :
               ~FracLess(sent_scores[j], sent_scores[i])

\* a later sentence is selected over an earlier one with a lower score
C9_Witness ==
    /\ Done /\ ret = "ranked" /\ ValidConfig
    /\ \E i \in DOMAIN sent_scores \ Emitted :
           \E j \in Emitted :
               i < j /\ FracLess(sent_scores[i], sent_scores[j])

\* the weight of the token at position k: 0 when its lemma has no weight
WeightAt(k) ==
    IF lower(lemma_(doc[k])) \in DOMAIN word_freq
    THEN word_freq[lower(lemma_(doc[k]))] ELSE <<0, 1>>

\* the sum of the weights at the positions ps, as an unreduced fraction
RECURSIVE WeightSum(_)
WeightSum(ps) ==
    IF ps = {} THEN <<0, 1>>
    ELSE LET k == CHOOSE x \in ps : TRUE
             rest == WeightSum(ps \ {k})
             w == WeightAt(k)
         IN  <<rest[1] * w[2] + w[1] * rest[2], rest[2] * w[2]>>

\* C10: a sentence's score is the sum of the weights of its non-space,
\* non-punctuation tokens divided by their number, and a sentence with no such
\* token has no entry in the score map.
C10_SentenceScore ==
    (Done /\ ret = "ranked")
    => \A i \in 1..Total :
           LET ps == ContentPositions(i)
               n == Cardinality(ps)
               sum == WeightSum(ps)
           IN  IF n = 0 THEN i \notin DOMAIN sent_scores
               ELSE /\ i \in DOMAIN sent_scores
                    /\ sent_scores[i][1] * (sum[2] * n)
                           = sum[1] * sent_scores[i][2]

\* a stop word halves the score of one sentence, and another sentence is
\* punctuation only
C10_Witness ==
    /\ Done /\ ret = "ranked" /\ ValidConfig
    /\ \E i \in 1..Total :
           /\ \E k \in ContentPositions(i) : is_stop(doc[k])
           /\ i \in DOMAIN sent_scores
           /\ sent_scores[i] = <<1, 2>>
    /\ \E i \in 1..Total : i \notin DOMAIN sent_scores

====
